---- MODULE Spec2Model ----
(***************************************************************************)
(* A model of kb_host: the wire protocol codec (src/src/protocol.rs), the  *)
(* HID worker thread with its owner handle and snapshot channel            *)
(* (src/src/threading.rs), the rainbow LED effect                          *)
(* (src/src/effects/rainbow1.rs), the keyboard configuration               *)
(* (src/src/config.rs) and the consumer's poll (src/src/ui.rs).            *)
(*                                                                         *)
(* Conventions.  Buffers are sequences of bytes (0..255); At(buf, i) reads *)
(* them with the source's 0-based index.  An Instant is a natural number   *)
(* of clock ticks; one tick is SecondsPerTick seconds.  A hue is a whole   *)
(* number of degrees; saturation, value and alpha are counted in quarters  *)
(* (4 = 1.0), so every colour the model handles is exact in f32 as well.   *)
(***************************************************************************)
EXTENDS Integers, Sequences, FiniteSets, TLC

VARIABLES
    now,        \* the monotonic clock read by Instant::now()
    kb_config,  \* the Arc<KBConfig> given to HIDThread::new
    device_in,  \* the reports the keyboard may deliver to read_timeout
    handle,     \* the HIDThread value: cancel flag, join handle, liveness
    owner,      \* the thread that owns the handle: where it is in stop()/drop
    workers,    \* the threads spawned by start(): locals of HIDThread::run
    channel,    \* the crossbeam channel created in HIDThread::new
    consumers,  \* the receivers handed out by rx(): App::update's state
    sent,       \* how many snapshots the channel accepted and refused so far
    call,       \* a call of a pure function: its name and arguments
    ret         \* the result of that call

vars == <<now, kb_config, device_in, handle, owner, workers, channel,
          consumers, sent, call, ret>>

loop_vars == <<now, kb_config, device_in, handle, owner, workers, channel,
               consumers, sent>>

(***************************************************************************)
(* Machine integers.                                                       *)
(***************************************************************************)
Byte == 0..255

RECURSIVE BitOr(_, _)
BitOr(a, b) ==
    IF a = 0 THEN b
    ELSE IF b = 0 THEN a
    ELSE (IF a % 2 = 1 \/ b % 2 = 1 THEN 1 ELSE 0) + 2 * BitOr(a \div 2, b \div 2)

RECURSIVE BitAnd(_, _)
BitAnd(a, b) ==
    IF a = 0 \/ b = 0 THEN 0
    ELSE (IF a % 2 = 1 /\ b % 2 = 1 THEN 1 ELSE 0) + 2 * BitAnd(a \div 2, b \div 2)

\* x >> n and x << n on an unsigned integer of w bits
Shr(x, n) == x \div (2 ^ n)
Shl(x, n, w) == (x * (2 ^ n)) % (2 ^ w)

At(buf, i) == buf[i + 1]

(***************************************************************************)
(* protocol.rs                                                             *)
(***************************************************************************)
KSK_PRESS == 0
KSK_LAYER == 1
KSK_RGB_SET == 2
RAW_EPSIZE == 32
K == 107    \* 0x6b
S == 115    \* 0x73

NoMessage == [type |-> "None"]

PressMessage(pressed, keycode, col, row) ==
    [type |-> "Press", pressed |-> pressed, keycode |-> keycode,
     col |-> col, row |-> row]

LayerMessage(layer_state) == [type |-> "Layer", layer_state |-> layer_state]

RgbSetMessage(colors) == [type |-> "RgbSet", colors |-> colors]

RgbSetFullMessage(color) == [type |-> "RgbSetFull", color |-> color]

Hsv(hue, saturation, value) ==
    [hue |-> hue, saturation |-> saturation, value |-> value]

\* f32 values: the colour channels are binary32 numbers, and a product that
\* is a whole number in exact arithmetic can fall just below it.  A value is
\* [m, e], standing for m * 2^-e with m below 2^24 (or 2^24 after a carry).
RECURSIVE BitLen(_)
BitLen(n) == IF n = 0 THEN 0 ELSE 1 + BitLen(n \div 2)

\* n / 2^k rounded to the nearest integer, ties to the even one
RoundShift(n, k) ==
    LET q    == n \div (2 ^ k)
        r    == n % (2 ^ k)
        half == 2 ^ (k - 1)
    IN  IF r > half \/ (r = half /\ q % 2 = 1) THEN q + 1 ELSE q

F32Zero == [m |-> 0, e |-> 0]

\* the f32 nearest to n * 2^-e, for n below 2^31
F32(n, e) ==
    IF n < 16777216 THEN [m |-> n, e |-> e]
    ELSE LET k == BitLen(n \div 16777216)
         IN  [m |-> RoundShift(n, k), e |-> e - k]

\* the least s from s0 on with n * 2^s >= d * 2^23
RECURSIVE DivShift(_, _, _)
DivShift(n, d, s0) ==
    IF n * (2 ^ s0) >= d * (2 ^ 23) THEN s0 ELSE DivShift(n, d, s0 + 1)

\* n * 2^s / d rounded to the nearest integer, ties to the even one
F32DivAt(n, d, s) ==
    LET q == (n * (2 ^ s)) \div d
        r == (n * (2 ^ s)) % d
    IN  [m |-> IF 2 * r > d \/ (2 * r = d /\ q % 2 = 1) THEN q + 1 ELSE q,
         e |-> s]

\* no s below BitLen(d) + 22 - BitLen(n) gives a quotient of 24 bits
F32DivFrom(n, d, lo) == F32DivAt(n, d, DivShift(n, d, IF lo < 0 THEN 0 ELSE lo))

\* the f32 nearest to n / d, for n >= 0 and d > 0
F32Div(n, d) ==
    IF n = 0 THEN F32Zero ELSE F32DivFrom(n, d, BitLen(d) + 22 - BitLen(n))

\* the f32 sum x + j/16; a summand too fine for the sum keeps one sticky bit
F32AddSixteenths(x, j) ==
    CASE j = 0   -> x
      [] x.m = 0 -> [m |-> j, e |-> 4]
      [] x.e < 4 -> F32(x.m * (2 ^ (4 - x.e)) + j, 4)
      [] x.e > 29 ->
           LET d  == 2 ^ (x.e - 29)
               q  == x.m \div d
               ms == IF q % 2 = 0 /\ x.m % d # 0 THEN q + 1 ELSE q
           IN  F32(ms + j * (2 ^ 25), 29)
      [] OTHER   -> F32(x.m + j * (2 ^ (x.e - 4)), x.e)

\* the f32 product x * 255.0.  A mantissa of 24 bits gives a product of 32:
\* it is 2 * b + l, of which 8 or 7 bits are rounded away.
F32Mul255(x) ==
    IF x.m < 8388608 THEN F32(255 * x.m, x.e)
    ELSE LET l == x.m % 2
             b == 255 * (x.m \div 2) + 127 * l
             k == IF b >= 1073741824 THEN 7 ELSE 6       \* bits of b dropped
             q == b \div (2 ^ k)
             r == 2 * (b % (2 ^ k)) + l
             half == 2 ^ k
         IN  [m |-> IF r > half \/ (r = half /\ q % 2 = 1) THEN q + 1 ELSE q,
              e |-> x.e - (k + 1)]

\* palette's Hsv -> Rgb on f32, step by step.  h is hue / 60 as an f32, c the
\* chroma and m the difference value - c, both in 1/16.
\* the sector of the colour wheel: h truncated
HsvSector(h) == IF h.m = 0 THEN 0 ELSE h.m \div (2 ^ h.e)

\* |h % 2 - 1|, in units of 2^-h.e
HsvFold(h, sector) ==
    LET one == 2 ^ h.e
        hm  == IF h.m = 0 THEN 0 ELSE h.m - (sector \div 2) * 2 * one   \* h % 2
    IN  F32(IF hm >= one THEN hm - one ELSE one - hm, h.e)

\* 1 - a
HsvOneMinus(a) == F32((2 ^ a.e) - a.m, a.e)

\* c * u
HsvScale(c, u) == F32(c * u.m, u.e + 4)

\* the channels of the sector, each with m added
HsvChannels(sector, cc, x, m) ==
    LET rgb1 == CASE sector = 0 -> <<cc, x, F32Zero>>
                  [] sector = 1 -> <<x, cc, F32Zero>>
                  [] sector = 2 -> <<F32Zero, cc, x>>
                  [] sector = 3 -> <<F32Zero, x, cc>>
                  [] sector = 4 -> <<x, F32Zero, cc>>
                  [] OTHER      -> <<cc, F32Zero, x>>
    IN  <<F32AddSixteenths(rgb1[1], m), F32AddSixteenths(rgb1[2], m),
          F32AddSixteenths(rgb1[3], m)>>

HsvFromSector(h, sector, c, m) ==
    HsvChannels(sector, [m |-> c, e |-> 4],
                HsvScale(c, HsvOneMinus(HsvFold(h, sector))), m)

HsvFromHue(h, c, m) == HsvFromSector(h, HsvSector(h), c, m)

\* hue in degrees (to_positive_degrees, then / 60), saturation and value in
\* quarters; the three channels as f32 values
HsvToRgb(color) ==
    HsvFromHue(F32Div(color.hue % 360, 60), color.value * color.saturation,
               4 * color.value - color.value * color.saturation)

\* (channel * 255.0) as u8: truncates, and saturates at both ends
ChannelByte(x) ==
    LET p == F32Mul255(x)
        v == p.m \div (2 ^ p.e)
    IN  IF v < 0 THEN 0 ELSE IF v > 255 THEN 255 ELSE v

\* rgb is bound through a singleton set, so the conversion is computed once
push_color(buf, color) ==
    CHOOSE out \in {buf \o <<ChannelByte(rgb[1]), ChannelByte(rgb[2]),
                              ChannelByte(rgb[3])>> : rgb \in {HsvToRgb(color)}} :
        TRUE

read_u16_shift8(buf, beg_index) ==
    BitOr(Shl(At(buf, beg_index + 1), 8, 16), At(buf, beg_index))

read_u16(buf, beg_index) ==
    BitOr(Shl(At(buf, beg_index + 1), 4, 16), At(buf, beg_index))

read_buffer_lax(buf, size) ==
    IF size < 4 \/ At(buf, 0) # K \/ At(buf, 1) # S \/ At(buf, 2) # K
    THEN NoMessage
    ELSE LET op == Shr(At(buf, 3), 4)
             header_data == BitAnd(At(buf, 3), 15)
         IN  IF op = KSK_PRESS
             THEN PressMessage(header_data = 1, read_u16(buf, 4),
                               At(buf, 6), At(buf, 7))
             ELSE LayerMessage(At(buf, 4))

read_buffer(buf, size) ==
    IF size < 4 \/ At(buf, 0) # K \/ At(buf, 1) # S \/ At(buf, 2) # K
    THEN NoMessage
    ELSE LET op == Shr(At(buf, 3), 4)
             header_data == BitAnd(At(buf, 3), 15)
         IN  CASE op = KSK_PRESS ->
                    PressMessage(header_data = 1, read_u16(buf, 4),
                                 At(buf, 6), At(buf, 7))
               [] op = KSK_LAYER -> LayerMessage(At(buf, 4))
               [] OTHER -> NoMessage

\* for (idx, color) in &msg.colors: `order` is the map's iteration order
RECURSIVE PushEntries(_, _, _)
PushEntries(buf, colors, order) ==
    IF order = <<>> THEN buf
    ELSE PushEntries(push_color(Append(buf, Head(order)), colors[Head(order)]),
                     colors, Tail(order))

SendPanic == [outcome |-> "panic", buf |-> <<>>]

SendUnchecked(buf) == [outcome |-> "write", buf |-> buf]

\* the size check that precedes device.write
SendCheck(buf) ==
    IF Len(buf) > RAW_EPSIZE + 1 THEN SendPanic
    ELSE [outcome |-> "write", buf |-> buf]

send_no_count(msg, order) ==
    LET buf == <<0, K, S, K>>
    IN  CASE msg.type = "RgbSet" ->
               SendCheck(PushEntries(Append(buf, Shl(KSK_RGB_SET, 4, 8)),
                                     msg.colors, order))
          [] msg.type = "RgbSetFull" ->
               SendCheck(push_color(Append(buf, Shl(KSK_RGB_SET, 4, 8)), msg.color))
          [] OTHER -> SendPanic

\* ProtocolMessage::send up to the write: the report handed to device.write,
\* or a panic
send(msg, order) ==
    LET buf == <<0, K, S, K>>
    IN  CASE msg.type = "RgbSet" ->
               IF Cardinality(DOMAIN msg.colors) > 255 THEN SendPanic
               ELSE SendCheck(PushEntries(
                        Append(buf, BitOr(Shl(KSK_RGB_SET, 4, 8),
                                          Cardinality(DOMAIN msg.colors) % 256)),
                        msg.colors, order))
          [] msg.type = "RgbSetFull" ->
               SendCheck(push_color(Append(buf, Shl(KSK_RGB_SET, 4, 8)), msg.color))
          [] OTHER -> SendPanic

(***************************************************************************)
(* config.rs                                                               *)
(***************************************************************************)
QMKKey(x, y, r, c) == [x |-> x, y |-> y, w |-> 1, h |-> 1, matrix |-> <<r, c>>]

Max(a, b) == IF a >= b THEN a ELSE b

\* matrix[key.matrix.0][key.matrix.1] of the LEDMatrix (Vec<Vec<i16>>)
LedIndex(matrix, key) == At(At(matrix, key.matrix[1]), key.matrix[2])

\* the position of the key is one of the LED matrix
InLedMatrix(matrix, key) ==
    /\ key.matrix[1] < Len(matrix)
    /\ key.matrix[2] < Len(At(matrix, key.matrix[1]))

\* the fold of KBConfig::new over the first n keys of the layout.  rows,
\* columns and led_count are u8: a sum that does not fit panics where the
\* build checks overflow (debug) and wraps where it does not (release); the
\* index into the LED matrix panics when the key lies outside it.
RECURSIVE ConfigFold(_, _, _, _)
ConfigFold(layout, matrix, n, overflow_checks) ==
    IF n = 0
    THEN [panic |-> FALSE, width |-> 0, height |-> 0, rows |-> 0,
          columns |-> 0, led_count |-> 0]
    ELSE LET acc == ConfigFold(layout, matrix, n - 1, overflow_checks)
             key == layout[n]
         IN  CASE acc.panic -> acc
               [] overflow_checks /\ key.matrix[1] + 1 > 255 ->
                    [acc EXCEPT !.panic = TRUE]
               [] overflow_checks /\ key.matrix[2] + 1 > 255 ->
                    [acc EXCEPT !.panic = TRUE]
               [] ~InLedMatrix(matrix, key) -> [acc EXCEPT !.panic = TRUE]
               [] /\ overflow_checks
                  /\ LedIndex(matrix, key) >= 0
                  /\ acc.led_count + 1 > 255 -> [acc EXCEPT !.panic = TRUE]
               [] OTHER ->
                    [panic     |-> FALSE,
                     width     |-> Max(acc.width, key.x + key.w),
                     height    |-> Max(acc.height, key.y + key.h),
                     rows      |-> Max(acc.rows, (key.matrix[1] + 1) % 256),
                     columns   |-> Max(acc.columns, (key.matrix[2] + 1) % 256),
                     led_count |-> IF LedIndex(matrix, key) >= 0
                                   THEN (acc.led_count + 1) % 256
                                   ELSE acc.led_count]

\* Config and QMKInfo, as far as KBConfig reads them: the name of the layout
\* in use, and the layouts of info.json by name
Config(layout_name) == [layout |-> layout_name]

QMKInfo(layouts) == [layouts |-> layouts]

\* get_layout: .expect("could not find layout") panics when the name is not
\* one of the layouts
HasLayout(qmk_info, host_config) ==
    host_config.layout \in DOMAIN qmk_info.layouts

get_layout(qmk_info, host_config) == qmk_info.layouts[host_config.layout]

\* KBConfig::new; [panic |-> TRUE] when it panics instead of returning
KBConfig_new(host_config, qmk_info, matrix, overflow_checks) ==
    IF ~HasLayout(qmk_info, host_config) THEN [panic |-> TRUE]
    ELSE LET layout == get_layout(qmk_info, host_config)
             acc    == ConfigFold(layout, matrix, Len(layout), overflow_checks)
         IN  IF acc.panic THEN [panic |-> TRUE]
             ELSE [panic |-> FALSE, host_config |-> host_config,
                   qmk_info |-> qmk_info, matrix |-> matrix,
                   width |-> acc.width, height |-> acc.height,
                   rows |-> acc.rows, columns |-> acc.columns,
                   led_count |-> acc.led_count]

\* KBConfig::layout
KBConfig_layout(cfg) == get_layout(cfg.qmk_info, cfg.host_config)

(***************************************************************************)
(* effects/mod.rs, effects/rainbow1.rs                                     *)
(***************************************************************************)
SPEED == 36     \* hue degrees per second
FACTOR == 4     \* hue degrees per key unit

Hsva(hue, saturation, value, alpha) ==
    [hue |-> hue, saturation |-> saturation, value |-> value, alpha |-> alpha]

\* Hsva::default(): black, opaque
DefaultColor == Hsva(0, 0, 0, 4)

\* LedState::default(); key is an index into the layout, 0 for None
DefaultLedState == [color |-> DefaultColor, key |-> 0]

Rainbow1Effect_default == [base_hue |-> 0]

\* the colour the effect gives a LED bound to `key`
RainbowColor(effect, key) ==
    Hsva((effect.base_hue + (key.x + key.y) * FACTOR) % 360, 4, 4, 4)

\* Rainbow1Effect::update; `delta` is in seconds.  led.key() unwraps the
\* slot's key, so a slot without one panics.
Rainbow1Effect_update(effect, delta, state, layout) ==
    IF \E i \in 1..Len(state) : state[i].key = 0
    THEN [panic |-> TRUE, state |-> state, effect |-> effect]
    ELSE [panic  |-> FALSE,
          state  |-> [i \in 1..Len(state) |->
                        [state[i] EXCEPT
                           !.color = RainbowColor(effect, layout[state[i].key])]],
          effect |-> [base_hue |-> (effect.base_hue + SPEED * delta) % 360]]

(***************************************************************************)
(* threading.rs: the data of HIDThread::run                                *)
(***************************************************************************)
NoInstant == -1      \* Option<Instant>::None

KeyState_default ==
    [last_down |-> NoInstant, last_pressed |-> NoInstant, is_pressed |-> FALSE]

\* HIDThreadState::default(), the consumer's state before its first snapshot
HIDThreadState_default ==
    [seq |-> 0, from |-> 0, delta_update |-> 0, delta_frame |-> 0,
     matrix |-> <<>>, led_state |-> <<>>, layer_state |-> 0]

apply_press_every(key_state, pressed, t) ==
    [key_state EXCEPT !.last_down = IF pressed THEN t ELSE @,
                      !.last_pressed = IF pressed THEN t ELSE @,
                      !.is_pressed = pressed]

\* lines 131-139: the update of one KeyState by a Press
apply_press(key_state, pressed, t) ==
    [key_state EXCEPT
       !.last_down = IF pressed /\ ~key_state.is_pressed THEN t ELSE @,
       !.last_pressed = IF pressed THEN t ELSE @,
       !.is_pressed = pressed]

\* lines 103-117: the matrix, and the LED slots bound to their keys.  The
\* result is the LED states after the first n keys, or a panic when a key's
\* LED index is no slot.
RECURSIVE BindLeds(_, _)
BindLeds(cfg, n) ==
    IF n = 0
    THEN [panic |-> FALSE, led_state |-> [i \in 1..cfg.led_count |-> DefaultLedState]]
    ELSE LET acc == BindLeds(cfg, n - 1)
             led_idx == LedIndex(cfg.matrix, KBConfig_layout(cfg)[n])
         IN  IF acc.panic \/ led_idx < 0 THEN acc
             ELSE IF led_idx >= cfg.led_count
                  THEN [acc EXCEPT !.panic = TRUE]
                  ELSE [acc EXCEPT !.led_state[led_idx + 1].key = n]

InitMatrix(cfg) ==
    [r \in 1..cfg.rows |-> [c \in 1..cfg.columns |-> KeyState_default]]

LedColors(led_state) == [i \in 1..Len(led_state) |-> led_state[i].color]

\* lines 157-170: the colours to send, keyed by the LED index (0-based)
ChangedAll(pre_state, led_state) ==
    [idx \in 0..(Len(led_state) - 1) |->
        LET c == led_state[idx + 1].color
        IN  Hsv(c.hue, c.saturation, (c.value * c.alpha) \div 4)]

Changed(pre_state, led_state) ==
    [idx \in {i \in 0..(Len(led_state) - 1) :
                led_state[i + 1].color # pre_state[i + 1].color} |->
        LET c == led_state[idx + 1].color
        IN  Hsv(c.hue, c.saturation, (c.value * c.alpha) \div 4)]

CHUNK == 7      \* chunks(7)

\* the chunks that chunks(7) may cut first from a vector holding `rest` in
\* some order: any CHUNK of them, or all when no more are left
NextChunks(rest) ==
    IF Cardinality(rest) <= CHUNK THEN {rest}
    ELSE {c \in SUBSET rest : Cardinality(c) = CHUNK}

Restrict(f, dom) == [x \in dom |-> f[x]]

\* some enumeration of a finite set of integers (the smallest first)
RECURSIVE SetToSeq(_)
SetToSeq(s) ==
    IF s = {} THEN <<>>
    ELSE LET m == CHOOSE x \in s : \A y \in s : x <= y
         IN  <<m>> \o SetToSeq(s \ {m})

(***************************************************************************)
(* Bounds of the model.                                                    *)
(***************************************************************************)
MaxTime == 3            \* the clock stops here
MaxWorkers == 2         \* calls of start() on the handle
MaxConsumers == 2       \* receivers obtained from rx()
SecondsPerTick == 5     \* the length of one clock tick
MaxPolls == 2           \* polls counted per consumer
MaxLeds == 9            \* LEDs of the largest keyboard

(***************************************************************************)
(* threading.rs: HIDThread::run, one worker's steps                        *)
(***************************************************************************)
NoBuffer == [i \in 1..RAW_EPSIZE |-> 0]

NoWorker ==
    [pc |-> "none", wait_update |-> 0, wait_frame |-> 0, last_update |-> 0,
     last_frame |-> 0, delta_update |-> 0, delta_frame |-> 0,
     recv_buffer |-> NoBuffer, msg |-> NoMessage, effects |-> <<>>,
     matrix |-> <<>>, led_state |-> <<>>, layer_state |-> 0,
     pre_state |-> <<>>, colors |-> <<>>, frame_sent |-> <<>>,
     writes |-> 0, finals |-> 0]

\* thread::spawn in start(): the closure holds 1.0 / rate for both rates
Spawned(wait_update, wait_frame) ==
    [NoWorker EXCEPT !.pc = "spawned", !.wait_update = wait_update,
                     !.wait_frame = wait_frame]

\* lines 91-119
run_init(wk, cfg, t) ==
    LET bound == BindLeds(cfg, Len(KBConfig_layout(cfg)))
    IN  [wk EXCEPT !.pc = IF bound.panic THEN "panicked" ELSE "check",
                   !.last_update = t,
                   !.last_frame = t,
                   !.delta_frame = wk.wait_frame,
                   !.effects = <<Rainbow1Effect_default>>,
                   !.matrix = InitMatrix(cfg),
                   !.led_state = bound.led_state,
                   !.pre_state = bound.led_state,
                   !.layer_state = 0]

LoopConditionFirst(wk, cancel) == ~cancel \/ wk.last_update = wk.last_frame

\* line 121: while !cancel.load(Ordering::Relaxed)
LoopCondition(wk, cancel) == ~cancel

\* lines 121-123
run_check(wk, cancel, t) ==
    IF LoopCondition(wk, cancel)
    THEN [wk EXCEPT !.pc = "read", !.delta_update = t - wk.last_update]
    ELSE [wk EXCEPT !.pc = "final"]

\* device.read_timeout(&mut recv_buffer, 0): the first bytes of the buffer
\* are overwritten by the report, the rest keep what they held
Received(recv_buffer, report) ==
    [i \in 1..RAW_EPSIZE |-> IF i <= Len(report) THEN report[i] ELSE recv_buffer[i]]

run_read_reset(wk, report, t) ==
    LET buf == Received(wk.recv_buffer, report)
        msg == read_buffer(buf, Len(report))
        w1  == [wk EXCEPT !.pc = "frame", !.recv_buffer = buf, !.msg = msg]
    IN  CASE msg.type = "Press" ->
               IF msg.row >= Len(wk.matrix)
                  \/ msg.col >= Len(wk.matrix[msg.row + 1])
               THEN [w1 EXCEPT !.pc = "panicked"]
               ELSE [w1 EXCEPT !.matrix[msg.row + 1][msg.col + 1] =
                                  apply_press(@, msg.pressed, t)]
          [] msg.type = "Layer" -> [w1 EXCEPT !.layer_state = msg.layer_state]
          [] OTHER -> [w1 EXCEPT !.layer_state = 0]

\* lines 126-146 for a read that returned Ok(size)
run_read(wk, report, t) ==
    LET buf == Received(wk.recv_buffer, report)
        msg == read_buffer(buf, Len(report))
        w1  == [wk EXCEPT !.pc = "frame", !.recv_buffer = buf, !.msg = msg]
    IN  CASE msg.type = "Press" ->
               IF msg.row >= Len(wk.matrix)
                  \/ msg.col >= Len(wk.matrix[msg.row + 1])
               THEN [w1 EXCEPT !.pc = "panicked"]
               ELSE [w1 EXCEPT !.matrix[msg.row + 1][msg.col + 1] =
                                  apply_press(@, msg.pressed, t)]
          [] msg.type = "Layer" -> [w1 EXCEPT !.layer_state = msg.layer_state]
          [] OTHER -> w1

\* lines 126-146 for a read that returned Err
run_read_err(wk) == [wk EXCEPT !.pc = "frame", !.msg = NoMessage]

\* for effect in &mut effects { effect.update(..) }: the first n effects
RECURSIVE RunEffects(_, _, _, _, _)
RunEffects(effects, n, delta, led_state, layout) ==
    IF n = 0 THEN [panic |-> FALSE, state |-> led_state, effects |-> effects]
    ELSE LET acc == RunEffects(effects, n - 1, delta, led_state, layout)
             r   == Rainbow1Effect_update(acc.effects[n], delta, acc.state, layout)
         IN  IF acc.panic \/ r.panic
             THEN [acc EXCEPT !.panic = TRUE]
             ELSE [panic |-> FALSE, state |-> r.state,
                   effects |-> [acc.effects EXCEPT ![n] = r.effect]]

FrameDueAlways(wk, t) == TRUE

\* line 148
FrameDue(wk, t) == t - wk.last_frame >= wk.wait_frame

\* lines 148-170 and, when nothing changed, line 180
run_frame(wk, layout, t) ==
    IF ~FrameDue(wk, t) THEN [wk EXCEPT !.pc = "tx"]
    ELSE LET delta_frame == t - wk.last_frame
             pre_state == wk.led_state
             r == RunEffects(wk.effects, Len(wk.effects),
                             delta_frame * SecondsPerTick, wk.led_state, layout)
             colors == Changed(pre_state, r.state)
         IN  IF r.panic THEN [wk EXCEPT !.pc = "panicked", !.delta_frame = delta_frame]
             ELSE [wk EXCEPT !.pc = IF DOMAIN colors = {} THEN "tx" ELSE "send",
                             !.delta_frame = delta_frame,
                             !.effects = r.effects,
                             !.pre_state = pre_state,
                             !.led_state = r.state,
                             !.colors = colors,
                             !.frame_sent = <<>>,
                             !.last_frame = IF DOMAIN colors = {} THEN t ELSE @]

run_send_revert(wk, chunk, ok, t) ==
    LET rest == Restrict(wk.colors, DOMAIN wk.colors \ chunk)
    IN  [wk EXCEPT !.pc = IF DOMAIN rest = {} THEN "tx" ELSE "send",
                   !.colors = rest,
                   !.frame_sent = Append(@, [idx |-> chunk, ok |-> ok]),
                   !.writes = @ + 1,
                   !.last_frame = IF DOMAIN rest = {} THEN t ELSE @,
                   !.led_state = [i \in 1..Len(wk.led_state) |->
                                    IF ~ok /\ (i - 1) \in chunk
                                    THEN wk.pre_state[i] ELSE wk.led_state[i]]]

run_send_retry(wk, chunk, ok, t) ==
    LET rest == Restrict(wk.colors, DOMAIN wk.colors \ chunk)
    IN  IF ~ok
        THEN [wk EXCEPT !.frame_sent = Append(@, [idx |-> chunk, ok |-> ok]),
                        !.writes = @ + 1]
        ELSE [wk EXCEPT !.pc = IF DOMAIN rest = {} THEN "tx" ELSE "send",
                        !.colors = rest,
                        !.frame_sent = Append(@, [idx |-> chunk, ok |-> ok]),
                        !.writes = @ + 1,
                        !.last_frame = IF DOMAIN rest = {} THEN t ELSE @]

\* lines 172-180: one chunk is sent; after the last one the frame timer is reset
run_send(wk, chunk, ok, t) ==
    LET msg  == RgbSetMessage(Restrict(wk.colors, chunk))
        r    == send(msg, SetToSeq(chunk))
        rest == Restrict(wk.colors, DOMAIN wk.colors \ chunk)
    IN  IF r.outcome = "panic" THEN [wk EXCEPT !.pc = "panicked"]
        ELSE [wk EXCEPT !.pc = IF DOMAIN rest = {} THEN "tx" ELSE "send",
                        !.colors = rest,
                        !.frame_sent = Append(@, [idx |-> chunk, ok |-> ok]),
                        !.writes = @ + 1,
                        !.last_frame = IF DOMAIN rest = {} THEN t ELSE @]

\* lines 184-192: the snapshot handed to try_send
Snapshot(wk, w, seq) ==
    [seq |-> seq, from |-> w, delta_update |-> wk.delta_update,
     delta_frame |-> wk.delta_frame, matrix |-> wk.matrix,
     led_state |-> LedColors(wk.led_state), layer_state |-> wk.layer_state]

\* Sender::try_send on an unbounded channel: refused only when every receiver
\* is gone
try_send(ch, snap, receivers) ==
    IF receivers = 0 THEN [ok |-> FALSE, channel |-> ch]
    ELSE [ok |-> TRUE, channel |-> Append(ch, snap)]

run_publish_unwrap(wk, ok, t) ==
    [wk EXCEPT !.pc = IF ok THEN "sleeping" ELSE "panicked", !.last_update = t]

\* lines 192-196: .ok() drops the result of try_send; last_update is set and
\* thread::sleep begins
run_publish(wk, ok, t) == [wk EXCEPT !.pc = "sleeping", !.last_update = t]

\* thread::sleep(wait_update) has returned
SleepOver(wk, t) == t >= wk.last_update + wk.wait_update

run_exit_retry(wk, ok) ==
    [wk EXCEPT !.pc = IF ok THEN "done" ELSE "final",
               !.writes = @ + 1, !.finals = @ + 1]

\* lines 199-203: the result of the terminal write, and .expect on it
run_exit(wk, ok) ==
    [wk EXCEPT !.pc = IF ok THEN "done" ELSE "panicked",
               !.writes = @ + 1, !.finals = @ + 1]

Black == Hsv(0, 0, 0)

\* the threads start() may still spawn, and the receivers rx() may still hand
\* out, are the slots of these two functions
Workers == DOMAIN workers

Consumers == DOMAIN consumers

\* what read_timeout may return: Err, or Ok(size) with a report of device_in;
\* Ok(0), no report waiting, is the empty report
ReadErr == <<-1>>
ReadResults == {ReadErr, <<>>} \cup device_in

\* lines 121-146: the loop condition, delta_update, the read and its effect
run_iterate(wk, cancel, result, t) ==
    LET w1 == run_check(wk, cancel, t)
    IN  IF w1.pc # "read" THEN w1
        ELSE IF result = ReadErr THEN run_read_err(w1)
        ELSE run_read(w1, result, t)

\* the receivers of the channel that are alive: the handle's own and the clones
Receivers ==
    (IF handle.alive THEN 1 ELSE 0)
    + Cardinality({c \in Consumers : consumers[c].active})

Tick ==
    /\ now < MaxTime
    /\ now' = now + 1
    /\ UNCHANGED <<kb_config, device_in, handle, owner, workers, channel,
                   consumers, sent, call, ret>>

WorkerInit(w) ==
    /\ workers[w].pc = "spawned"
    /\ workers' = [workers EXCEPT ![w] = run_init(@, kb_config, now)]
    /\ UNCHANGED <<now, kb_config, device_in, handle, owner, channel,
                   consumers, sent, call, ret>>

\* the head of one iteration: the cancellation flag is loaded and, unless it
\* is set, the device is read and the report applied
WorkerIterate(w) ==
    /\ workers[w].pc = "check"
    /\ \E result \in ReadResults :
          workers' = [workers EXCEPT
                        ![w] = run_iterate(@, handle.cancel, result, now)]
    /\ UNCHANGED <<now, kb_config, device_in, handle, owner, channel,
                   consumers, sent, call, ret>>

WorkerFrame(w) ==
    /\ workers[w].pc = "frame"
    /\ workers' = [workers EXCEPT ![w] = run_frame(@, KBConfig_layout(kb_config), now)]
    /\ UNCHANGED <<now, kb_config, device_in, handle, owner, channel,
                   consumers, sent, call, ret>>

WorkerSend(w) ==
    /\ workers[w].pc = "send"
    /\ \E chunk \in NextChunks(DOMAIN workers[w].colors), ok \in BOOLEAN :
          workers' = [workers EXCEPT ![w] = run_send(@, chunk, ok, now)]
    /\ UNCHANGED <<now, kb_config, device_in, handle, owner, channel,
                   consumers, sent, call, ret>>

WorkerPublish(w) ==
    /\ workers[w].pc = "tx"
    /\ LET r == try_send(channel, Snapshot(workers[w], w, sent.accepted + 1), Receivers)
       IN  /\ channel' = r.channel
           /\ sent' = IF r.ok THEN [sent EXCEPT !.accepted = @ + 1]
                               ELSE [sent EXCEPT !.refused = @ + 1]
           /\ workers' = [workers EXCEPT ![w] = run_publish(@, r.ok, now)]
    /\ UNCHANGED <<now, kb_config, device_in, handle, owner, consumers, call, ret>>

WorkerWake(w) ==
    /\ workers[w].pc = "sleeping"
    /\ SleepOver(workers[w], now)
    /\ workers' = [workers EXCEPT ![w].pc = "check"]
    /\ UNCHANGED <<now, kb_config, device_in, handle, owner, channel,
                   consumers, sent, call, ret>>

WorkerExit(w) ==
    /\ workers[w].pc = "final"
    /\ LET r == send(RgbSetFullMessage(Black), <<>>)
       IN  IF r.outcome = "panic"
           THEN workers' = [workers EXCEPT ![w].pc = "panicked"]
           ELSE \E ok \in BOOLEAN :
                   workers' = [workers EXCEPT ![w] = run_exit(@, ok)]
    /\ UNCHANGED <<now, kb_config, device_in, handle, owner, channel,
                   consumers, sent, call, ret>>

(***************************************************************************)
(* threading.rs: the handle (new, start, stop, rx, drop) and its owner     *)
(***************************************************************************)
\* HIDThread::new
HIDThread_new == [cancel |-> FALSE, thread |-> 0, alive |-> TRUE, started |-> 0]

Owner_new == [pc |-> "idle", target |-> 0, stops |-> 0]

\* the rates start() may be given, as the waits 1.0 / rate in ticks
UpdateWaits == {1}
FrameWaits == {1, 2}
SlowFrameWaits == {2}

\* start(): a new thread; the JoinHandle of an earlier one is overwritten,
\* which detaches that thread
start(update_waits, frame_waits) ==
    /\ owner.pc = "idle"
    /\ handle.started + 1 \in Workers
    /\ \E wu \in update_waits, wf \in frame_waits :
          workers' = [workers EXCEPT ![handle.started + 1] = Spawned(wu, wf)]
    /\ handle' = [handle EXCEPT !.thread = handle.started + 1,
                                !.started = @ + 1]
    /\ UNCHANGED <<now, kb_config, device_in, owner, channel, consumers,
                   sent, call, ret>>

\* start() at any of the frame rates, and at the slow one
Start == start(UpdateWaits, FrameWaits)

StartSlow == start(UpdateWaits, SlowFrameWaits)

\* lines 71-74: the flag is set and the JoinHandle taken; .expect panics when
\* there is none.  `how` is "stop" for a call of stop(), "drop" for the drop.
\* A panic of stop() leaves the handle and its receiver as they are; a panic
\* inside the drop still drops the handle's fields, the receiver with them.
stop_begin(how) ==
    /\ owner.pc = "idle"
    /\ handle' = [handle EXCEPT !.cancel = TRUE, !.thread = 0,
                                !.alive = IF handle.thread = 0 /\ how = "drop"
                                          THEN FALSE ELSE @]
    /\ owner' = [owner EXCEPT !.pc = IF handle.thread = 0 THEN "panicked" ELSE how,
                              !.target = handle.thread]
    /\ UNCHANGED <<now, kb_config, device_in, workers, channel, consumers,
                   sent, call, ret>>

Stop == stop_begin("stop")

Drop == stop_begin("drop")

JoinAny(wk) == TRUE

\* JoinHandle::join returns once the thread has ended
JoinReady(wk) == wk.pc \in {"done", "panicked"}

join_ok(wk) == "Ok"

\* the Result of JoinHandle::join: Err when the thread panicked
join(wk) == IF wk.pc = "panicked" THEN "Err" ELSE "Ok"

\* lines 75-76: join() and .unwrap(): a worker that panicked makes the caller
\* panic; after drop's stop() the fields of the handle are dropped
Join ==
    /\ owner.pc \in {"stop", "drop"}
    /\ JoinReady(workers[owner.target])
    /\ LET panicked == join(workers[owner.target]) = "Err"
       IN  /\ owner' = [owner EXCEPT
                          !.pc = CASE panicked -> "panicked"
                                   [] owner.pc = "drop" -> "dropped"
                                   [] OTHER -> "idle",
                          !.stops = IF ~panicked /\ owner.pc = "stop"
                                    THEN @ + 1 ELSE @]
           /\ handle' = [handle EXCEPT
                           !.alive = IF owner.pc = "drop" THEN FALSE ELSE @]
    /\ UNCHANGED <<now, kb_config, device_in, workers, channel, consumers,
                   sent, call, ret>>

(***************************************************************************)
(* ui.rs: a consumer, App with a receiver from rx()                        *)
(***************************************************************************)
\* App::new
NoConsumer ==
    [active |-> FALSE, curr_state |-> HIDThreadState_default,
     polls |-> 0, drained |-> 0, pc |-> "idle", last |-> <<>>, taken |-> 0]

\* rx(): one more receiver of the same channel
Rx ==
    /\ owner.pc = "idle"
    /\ handle.alive
    /\ \E c \in Consumers :
          /\ ~consumers[c].active
          /\ \A d \in Consumers : d < c => consumers[d].active
          /\ consumers' = [consumers EXCEPT ![c].active = TRUE]
    /\ UNCHANGED <<now, kb_config, device_in, handle, owner, workers, channel,
                   sent, call, ret>>

try_recv_newest(ch) ==
    IF ch = <<>> THEN [some |-> FALSE, channel |-> ch]
    ELSE [some |-> TRUE, value |-> ch[Len(ch)],
          channel |-> SubSeq(ch, 1, Len(ch) - 1)]

\* Receiver::try_recv: the oldest message, if there is one
try_recv(ch) ==
    IF ch = <<>> THEN [some |-> FALSE, channel |-> ch]
    ELSE [some |-> TRUE, value |-> Head(ch), channel |-> Tail(ch)]

\* App::update, lines 200-202: rx.try_iter().last() calls try_recv until it
\* finds the channel empty, and other threads run between two of the calls.
\* One step is one try_recv: a message taken is remembered as the last one;
\* the empty channel ends the iteration, and curr_state becomes the last
\* message taken, if any was.
Poll(c) ==
    /\ consumers[c].active
    /\ LET r  == try_recv(channel)
           me == consumers[c]
       IN  /\ channel' = r.channel
           /\ consumers' = [consumers EXCEPT ![c] =
                 IF r.some
                 THEN [me EXCEPT !.pc = "drain", !.last = <<r.value>>,
                                 !.taken = @ + 1]
                 ELSE [me EXCEPT !.pc = "idle", !.last = <<>>, !.taken = 0,
                                 !.curr_state = IF me.last # <<>>
                                                THEN me.last[1] ELSE @,
                                 !.polls = IF @ < MaxPolls THEN @ + 1 ELSE @,
                                 !.drained = me.taken]]
    /\ UNCHANGED <<now, kb_config, device_in, handle, owner, workers, sent,
                   call, ret>>

(***************************************************************************)
(* The program: one handle, its owner, its workers and its consumers       *)
(***************************************************************************)
\* a row of n keys, and the LED matrix that gives key i the LED leds[i]
RowLayout(n) == [i \in 1..n |-> QMKKey(i - 1, 0, 0, i - 1)]

\* no sum of these configurations leaves u8, so the build's overflow checks
\* make no difference to them
RowConfig(leds) ==
    KBConfig_new(Config("row"), QMKInfo("row" :> RowLayout(Len(leds))),
                 <<leds>>, TRUE)

\* reports of the keyboard's firmware: a press and a release of the key at
\* (row, col), a change of layer
ReportPress(row, col) == <<K, S, K, 1, 4, 0, col, row>>
ReportRelease(row, col) == <<K, S, K, 0, 4, 0, col, row>>
ReportLayer(layer_state) == <<K, S, K, 16, layer_state>>

NoCall == [fn |-> "none"]
NoRet == [done |-> FALSE]

InitProgram(max_workers, max_consumers) ==
    /\ now = 0
    /\ handle = HIDThread_new
    /\ owner = Owner_new
    /\ workers = [w \in 1..max_workers |-> NoWorker]
    /\ channel = <<>>
    /\ consumers = [c \in 1..max_consumers |-> NoConsumer]
    /\ sent = [accepted |-> 0, refused |-> 0]

WorkerStep(w) ==
    \/ WorkerInit(w)
    \/ WorkerIterate(w)
    \/ WorkerFrame(w)
    \/ WorkerSend(w)
    \/ WorkerPublish(w)
    \/ WorkerWake(w)
    \/ WorkerExit(w)

\* The handle and the threads it starts: start() up to MaxWorkers times,
\* stop() and drop in any order, a keyboard that sends nothing.
Init ==
    /\ InitProgram(MaxWorkers, 0)
    /\ call = NoCall
    /\ ret = NoRet
    /\ kb_config = RowConfig(<<0>>)
    /\ device_in = {}

Next ==
    \/ Tick
    \/ StartSlow
    \/ Stop
    \/ Drop
    \/ Join
    \/ \E w \in Workers : WorkerStep(w)

Spec == Init /\ [][Next]_vars

\* One worker and the consumers of its snapshots.
InitChannel ==
    /\ InitProgram(1, MaxConsumers)
    /\ call = NoCall
    /\ ret = NoRet
    /\ kb_config = RowConfig(<<0>>)
    /\ device_in = {}

NextChannel ==
    \/ Tick
    \/ StartSlow
    \/ Stop
    \/ Join
    \/ Rx
    \/ \E w \in Workers : WorkerStep(w)
    \/ \E c \in Consumers : Poll(c)

SpecChannel == InitChannel /\ [][NextChannel]_vars

\* One worker and a keyboard whose keys are pressed and released.
InitKeys ==
    /\ InitProgram(1, 0)
    /\ call = NoCall
    /\ ret = NoRet
    /\ kb_config = RowConfig(<<0, 1>>)
    /\ device_in = {ReportPress(0, 0), ReportRelease(0, 0), ReportPress(0, 1),
                    ReportRelease(0, 1), ReportLayer(1)}

NextKeys ==
    \/ Tick
    \/ Start
    \/ Stop
    \/ Join
    \/ \E w \in Workers : WorkerStep(w)

SpecKeys == InitKeys /\ [][NextKeys]_vars

\* One worker and keyboards of 0 to MaxLeds LEDs.
InitFrame ==
    /\ InitProgram(1, 0)
    /\ call = NoCall
    /\ ret = NoRet
    /\ kb_config \in {RowConfig([i \in 1..n |-> i - 1]) : n \in 0..MaxLeds}
    /\ device_in = {}

SpecFrame == InitFrame /\ [][NextKeys]_vars

\* reports the loop ignores: a wrong magic byte, an opcode that is not known,
\* a report too short to hold a header
ReportBadMagic == <<K, K, K, 1, 4, 0, 1, 0>>
ReportUnknown == <<K, S, K, 32, 1, 0, 1, 0>>
ReportShort == <<K, S, K>>

\* One worker and a keyboard that sends reports of every kind.
InitRead ==
    /\ InitProgram(1, 0)
    /\ call = NoCall
    /\ ret = NoRet
    /\ kb_config = RowConfig(<<0, 1>>)
    /\ device_in = {ReportPress(0, 1), ReportLayer(1), ReportBadMagic,
                    ReportUnknown, ReportShort}

SpecRead == InitRead /\ [][Next]_vars

MaxKeys == 2           \* keys of the largest layout in SpecConfig

\* every LED matrix of one row for a layout of up to MaxKeys keys: each key
\* has no LED (-1) or any LED index up to MaxKeys
LedMaps == UNION {[1..n -> -1..MaxKeys] : n \in 0..MaxKeys}

\* a key in the last row a u8 can name, and a LED matrix that has that row
FarLayout == <<QMKKey(0, 0, 255, 0)>>

FarMatrix == [r \in 1..256 |-> <<0>>]

\* the calls of KBConfig::new: the rows of LedMaps; the far key, in a build
\* with overflow checks and in one without; a key outside the LED matrix; a
\* layout name that info.json does not have
ConfigCalls ==
    {RowConfig(leds) : leds \in LedMaps}
    \cup {KBConfig_new(Config("far"), QMKInfo("far" :> FarLayout), FarMatrix, b) :
             b \in BOOLEAN}
    \cup {KBConfig_new(Config("row"), QMKInfo("row" :> RowLayout(2)), <<<<0>>>>, TRUE),
          KBConfig_new(Config("M"), QMKInfo("L" :> RowLayout(1)), <<<<0>>>>, TRUE)}

\* the configurations the program can run with: the calls that returned
Configs == {cfg \in ConfigCalls : ~cfg.panic}

\* One worker and every keyboard configuration KBConfig::new returns.
InitConfig ==
    /\ InitProgram(1, 0)
    /\ call = NoCall
    /\ ret = NoRet
    /\ kb_config \in Configs
    /\ device_in = {}

SpecConfig == InitConfig /\ [][Next]_vars

\* One worker whose iterations are timed: call.start[w] is the instant at
\* which worker w began its latest iteration (line 121 found the flag clear).
InitTiming ==
    /\ InitProgram(1, 0)
    /\ call = [fn |-> "iterations", start |-> [w \in 1..1 |-> NoInstant]]
    /\ ret = NoRet
    /\ kb_config = RowConfig(<<0>>)
    /\ device_in = {}

\* WorkerIterate, with the instant of the iteration's start noted
TimedIterate(w) ==
    /\ workers[w].pc = "check"
    /\ \E result \in ReadResults :
          workers' = [workers EXCEPT
                        ![w] = run_iterate(@, handle.cancel, result, now)]
    /\ call' = IF LoopCondition(workers[w], handle.cancel)
               THEN [call EXCEPT !.start[w] = now] ELSE call
    /\ UNCHANGED <<now, kb_config, device_in, handle, owner, channel,
                   consumers, sent, ret>>

NextTiming ==
    \/ Tick
    \/ StartSlow
    \/ Stop
    \/ Join
    \/ \E w \in Workers :
          \/ WorkerInit(w)
          \/ TimedIterate(w)
          \/ WorkerFrame(w)
          \/ WorkerSend(w)
          \/ WorkerPublish(w)
          \/ WorkerWake(w)
          \/ WorkerExit(w)

SpecTiming == InitTiming /\ [][NextTiming]_vars

\* One worker, a clock that does not stop while a cancelled worker sleeps,
\* and fair scheduling.  call notes, when stop() or the drop sets the flag,
\* how many snapshots had been published and how many reports written.
InitLive ==
    /\ InitProgram(1, 0)
    /\ call = [fn |-> "cancel", set |-> FALSE, published |-> 0, writes |-> 0]
    /\ ret = NoRet
    /\ kb_config = RowConfig(<<0>>)
    /\ device_in = {}

\* the clock beyond MaxTime: it runs on for the sleep of a cancelled worker
TickSleeping ==
    /\ now >= MaxTime
    /\ now < MaxTime + Cardinality(Workers)
    /\ handle.cancel
    /\ \E w \in Workers :
          workers[w].pc = "sleeping" /\ ~SleepOver(workers[w], now)
    /\ now' = now + 1
    /\ UNCHANGED <<kb_config, device_in, handle, owner, workers, channel,
                   consumers, sent, call, ret>>

\* stop_begin, with the counts at the instant the flag is set noted
LiveStop(how) ==
    /\ owner.pc = "idle"
    /\ handle' = [handle EXCEPT !.cancel = TRUE, !.thread = 0,
                                !.alive = IF handle.thread = 0 /\ how = "drop"
                                          THEN FALSE ELSE @]
    /\ owner' = [owner EXCEPT !.pc = IF handle.thread = 0 THEN "panicked" ELSE how,
                              !.target = handle.thread]
    /\ call' = IF handle.cancel THEN call
               ELSE [call EXCEPT !.set = TRUE,
                                 !.published = sent.accepted + sent.refused,
                                 !.writes = IF 1 \in Workers
                                            THEN workers[1].writes ELSE 0]
    /\ UNCHANGED <<now, kb_config, device_in, workers, channel, consumers,
                   sent, ret>>

NextLive ==
    \/ Tick
    \/ TickSleeping
    \/ StartSlow
    \/ LiveStop("stop")
    \/ LiveStop("drop")
    \/ Join
    \/ \E w \in Workers : WorkerStep(w)

\* the scheduler runs every thread that can take a step, and time passes
SpecLive ==
    /\ InitLive
    /\ [][NextLive]_vars
    /\ WF_vars(Tick)
    /\ WF_vars(TickSleeping)
    /\ \A w \in {1} : WF_vars(WorkerStep(w))

(***************************************************************************)
(* The effect pipeline inside the worker's loop: the frames the worker     *)
(* runs, lines 148-181, with the delta of each noted as it is measured     *)
(***************************************************************************)
PipelineLeds == 8       \* LEDs of the keyboard the run drives

\* One worker and a keyboard of PipelineLeds LEDs, enough for two batches a
\* frame, whose key is pressed and released.  The deltas of the frames the
\* worker has run are noted as it runs them.
InitPipeline ==
    /\ InitProgram(1, 0)
    /\ call = [fn |-> "pipeline", fed |-> [w \in 1..1 |-> <<>>]]
    /\ ret = NoRet
    /\ kb_config = RowConfig([i \in 1..PipelineLeds |-> i - 1])
    /\ device_in = {ReportPress(0, 1), ReportRelease(0, 1)}

\* WorkerFrame, with the delta of a frame that was due noted
PipelineFrame(w) ==
    /\ workers[w].pc = "frame"
    /\ workers' = [workers EXCEPT
                     ![w] = run_frame(@, KBConfig_layout(kb_config), now)]
    /\ call' = IF FrameDue(workers[w], now)
               THEN [call EXCEPT !.fed[w] = Append(@, now - workers[w].last_frame)]
               ELSE call
    /\ UNCHANGED <<now, kb_config, device_in, handle, owner, channel,
                   consumers, sent, ret>>

NextPipeline ==
    \/ Tick
    \/ Start
    \/ Stop
    \/ Join
    \/ \E w \in Workers :
          \/ WorkerInit(w)
          \/ WorkerIterate(w)
          \/ PipelineFrame(w)
          \/ WorkerSend(w)
          \/ WorkerPublish(w)
          \/ WorkerWake(w)
          \/ WorkerExit(w)

SpecPipeline == InitPipeline /\ [][NextPipeline]_vars

\* the pipeline alone: the effects and the LED state of a run in which
\* nothing happens but the frames of these deltas, from the state lines
\* 100-117 set up
RECURSIVE PipelineRun(_, _)
PipelineRun(cfg, deltas) ==
    IF deltas = <<>>
    THEN [effects |-> <<Rainbow1Effect_default>>,
          led_state |-> BindLeds(cfg, Len(KBConfig_layout(cfg))).led_state]
    ELSE LET acc == PipelineRun(cfg, SubSeq(deltas, 1, Len(deltas) - 1))
             r   == RunEffects(acc.effects, Len(acc.effects),
                               deltas[Len(deltas)] * SecondsPerTick,
                               acc.led_state, KBConfig_layout(cfg))
         IN  [effects |-> r.effects, led_state |-> r.state]

(***************************************************************************)
(* The codec alone: calls of read_buffer and of send on bounded inputs     *)
(***************************************************************************)
MaxEntries == 8         \* entries of the largest RgbSet encoded

InitIdle ==
    /\ InitProgram(0, 0)
    /\ kb_config = RowConfig(<<>>)
    /\ device_in = {}

\* a receive buffer: eight chosen bytes, the rest zero
Buffer(prefix) == [i \in 1..RAW_EPSIZE |-> IF i <= Len(prefix) THEN prefix[i] ELSE 0]

MagicBytes == {K, S, 0}
HeaderBytes == {0, 1, 2, 15, 16, 17, 31, 32, 33, 240, 255}
PayloadBytes == {0, 1, 15, 240, 255}
PositionBytes == {0, 3, 5}
Sizes == {0, 3, 4, 5, 8, RAW_EPSIZE}

DecodeCalls ==
    {[fn |-> "read_buffer", buf |-> Buffer(<<b0, S, b2, b3, b4, b5, b6, b7>>),
      size |-> size] :
        b0 \in {K, 0}, b2 \in {K, S}, b3 \in HeaderBytes, b4 \in PayloadBytes,
        b5 \in PayloadBytes, b6 \in PositionBytes, b7 \in PositionBytes,
        size \in Sizes}
    \cup
    {[fn |-> "read_buffer", buf |-> Buffer(<<K, b1, K, b3, 1, 0, 3, 5>>),
      size |-> size] :
        b1 \in MagicBytes, b3 \in HeaderBytes, size \in Sizes}

InitDecode ==
    /\ InitIdle
    /\ call \in DecodeCalls
    /\ ret = NoRet

CallReadBuffer ==
    /\ call.fn = "read_buffer"
    /\ ~ret.done
    /\ ret' = [done |-> TRUE, value |-> read_buffer(call.buf, call.size)]
    /\ UNCHANGED <<loop_vars, call>>

SpecDecode == InitDecode /\ [][CallReadBuffer]_vars

\* colours: hues every 30 degrees, whose conversion is exact, and hues whose
\* channels fall between two f32 values; saturation and value 0, 1/2 and 1
TestColors ==
    {Hsv(hue, sat, val) : hue \in {30 * h : h \in 0..11} \cup {4, 64, 124},
                          sat \in {0, 2, 4}, val \in {0, 2, 4}}

\* the colour given to LED idx in the RgbSet messages encoded
TestColor(idx, shift) ==
    Hsv(30 * ((idx + shift) % 12) + 4 * (shift % 2), 2 * ((idx + shift) % 3),
        2 * (((idx + shift) \div 3) % 3))

\* n distinct LED indices from `first` on, wrapped to u8
IndexSet(n, first) == {(first + i) % 256 : i \in 0..(n - 1)}

\* the orders in which a HashMap with these keys may be iterated: all of them
RECURSIVE Orders(_)
Orders(keys) ==
    IF keys = {} THEN {<<>>}
    ELSE UNION {{<<k>> \o rest : rest \in Orders(keys \ {k})} : k \in keys}

SendCalls ==
    {[fn |-> "send", msg |-> RgbSetFullMessage(c)] : c \in TestColors}
    \cup
    UNION {{[fn |-> "send",
             msg |-> RgbSetMessage([idx \in IndexSet(n, first) |->
                                      TestColor(idx, shift)])] :
               first \in IF n <= CHUNK THEN {0, 250} ELSE {0},
               shift \in IF n <= CHUNK THEN 0..1 ELSE {0}} :
           n \in 0..MaxEntries}
    \cup
    {[fn |-> "send", msg |-> m] :
        m \in {PressMessage(TRUE, 1, 3, 5), LayerMessage(1)}}

InitSend ==
    /\ InitIdle
    /\ call \in SendCalls
    /\ ret = NoRet

\* send(): the report is built, its entries in the order the map's iterator
\* yields them, and, unless that panics, handed to device.write, which
\* answers Ok or Err
CallSend ==
    /\ call.fn = "send"
    /\ ~ret.done
    /\ \E order \in IF call.msg.type = "RgbSet"
                    THEN Orders(DOMAIN call.msg.colors) ELSE {<<>>} :
          LET value == send(call.msg, order)
          IN  \E ok \in BOOLEAN :
                 ret' = [done |-> TRUE, value |-> value, ok |-> ok]
    /\ UNCHANGED <<loop_vars, call>>

SpecSend == InitSend /\ [][CallSend]_vars

(***************************************************************************)
(* Claims about the codec                                                  *)
(***************************************************************************)
Bit(x, k) == (x \div (2 ^ k)) % 2

MagicOk(buf) == buf[1] = 107 /\ buf[2] = 115 /\ buf[3] = 107

ExampleReport == Buffer(<<107, 115, 107, 1, 1, 0, 3, 5>>)

\* C8: read_buffer returns None exactly when size < 4, or the first three
\* bytes are not the magic 0x6b 0x73 0x6b, or the opcode (the high nibble of
\* byte 3) is neither 0 nor 1; in every other case it returns a message.
C8_ReadBufferNone ==
    (ret.done /\ call.fn = "read_buffer") =>
        LET opcode == call.buf[4] \div 16
            nothing == call.size < 4 \/ ~MagicOk(call.buf) \/ opcode \notin {0, 1}
        IN  /\ nothing => ret.value.type = "None"
            /\ ~nothing => ret.value.type \in {"Press", "Layer"}

\* a buffer of good magic and sufficient size, of an opcode that is not known,
\* was decoded to None
C8_Witness ==
    /\ ret.done /\ call.fn = "read_buffer"
    /\ call.size >= 4 /\ MagicOk(call.buf) /\ call.buf[4] \div 16 = 2
    /\ ret.value.type = "None"

\* C9: a buffer of good magic with opcode 0 decodes to Press with pressed =
\* (low nibble of byte 3 = 1), keycode = byte 4 | (byte 5 << 4), col = byte 6,
\* row = byte 7; with opcode 1 to Layer with layer_state = byte 4.  The
\* example report decodes to Press{pressed: true, keycode: 1, col: 3, row: 5},
\* and with byte 3 = 0 to pressed: false.
C9_ReadBufferFields ==
    (ret.done /\ call.fn = "read_buffer" /\ call.size >= 4 /\ MagicOk(call.buf)) =>
        LET buf == call.buf
            v   == ret.value
        IN  /\ buf[4] \div 16 = 0 =>
                 /\ v.type = "Press"
                 /\ v.pressed = (buf[4] % 16 = 1)
                 /\ v.keycode \in 0..65535
                 /\ \A k \in 0..15 :
                       Bit(v.keycode, k) =
                          IF Bit(buf[5], k) = 1 \/ Bit(buf[6] * 16, k) = 1
                          THEN 1 ELSE 0
                 /\ v.col = buf[7]
                 /\ v.row = buf[8]
            /\ buf[4] \div 16 = 1 =>
                 /\ v.type = "Layer"
                 /\ v.layer_state = buf[5]
            /\ (buf = ExampleReport /\ call.size = 8) =>
                 v = [type |-> "Press", pressed |-> TRUE, keycode |-> 1,
                      col |-> 3, row |-> 5]
            /\ (buf = [ExampleReport EXCEPT ![4] = 0] /\ call.size = 8) =>
                 v = [type |-> "Press", pressed |-> FALSE, keycode |-> 1,
                      col |-> 3, row |-> 5]

\* a Press was decoded whose two keycode bytes overlap in bits 4..7
C9_Witness ==
    /\ ret.done /\ call.fn = "read_buffer"
    /\ call.size = 8 /\ MagicOk(call.buf)
    /\ call.buf[4] = 1 /\ call.buf[5] = 240 /\ call.buf[6] = 15
    /\ ret.value.type = "Press" /\ ret.value.pressed /\ ret.value.keycode = 240

\* C10: every report written by send() is 0x00, the magic, and a header byte
\* with 2 in the high nibble and the entry count in the low one.  An RgbSet
\* of n <= 7 entries is written as 5 + 4n bytes, one index+RGB group per
\* entry; an RgbSetFull as 8 bytes, count 0 and one RGB triplet;
\* RgbSetFull(black) is 00 6b 73 6b 20 00 00 00.
C10_SendLayout ==
    (ret.done /\ call.fn = "send") =>
        LET msg == call.msg
            buf == ret.value.buf
            written == ret.value.outcome = "write"
            n == IF msg.type = "RgbSet" THEN Cardinality(DOMAIN msg.colors) ELSE 0
        IN  /\ written =>
                 /\ Len(buf) >= 5
                 /\ SubSeq(buf, 1, 4) = <<0, 107, 115, 107>>
                 /\ buf[5] \div 16 = 2
                 /\ buf[5] % 16 = n
                 /\ \A i \in 1..Len(buf) : buf[i] \in Byte
            /\ (msg.type = "RgbSet" /\ n <= 7) =>
                 /\ written
                 /\ Len(buf) = 5 + 4 * n
                 /\ \A idx \in DOMAIN msg.colors :
                       Cardinality({j \in 0..(n - 1) : buf[6 + 4 * j] = idx}) = 1
            /\ msg.type = "RgbSetFull" =>
                 /\ written
                 /\ Len(buf) = 8
            /\ msg = RgbSetFullMessage(Hsv(0, 0, 0)) =>
                 buf = <<0, 107, 115, 107, 32, 0, 0, 0>>
            /\ msg = RgbSetFullMessage(Hsv(0, 4, 4)) =>
                 SubSeq(buf, 6, 8) = <<255, 0, 0>>
            /\ msg = RgbSetFullMessage(Hsv(120, 4, 4)) =>
                 SubSeq(buf, 6, 8) = <<0, 255, 0>>
            /\ msg = RgbSetFullMessage(Hsv(0, 0, 2)) =>
                 SubSeq(buf, 6, 8) = <<127, 127, 127>>

\* an RgbSet of seven entries was written, as 33 bytes
C10_Witness ==
    /\ ret.done /\ call.fn = "send"
    /\ call.msg.type = "RgbSet"
    /\ Cardinality(DOMAIN call.msg.colors) = 7
    /\ ret.value.outcome = "write"
    /\ Len(ret.value.buf) = 33
    /\ ret.value.buf[5] = 39

(***************************************************************************)
(* Claims about the worker's loop                                          *)
(***************************************************************************)
Running(wk) == wk.pc \notin {"none", "spawned"}

\* C6: for the Press events applied to one matrix position, last_down changes
\* only when an event with pressed = true arrives while is_pressed is false;
\* repeated pressed = true events and every pressed = false event leave it
\* unchanged; after each event is_pressed equals the event's flag; nothing
\* else changes a KeyState.
C6_PressEdges ==
    [][\A w \in DOMAIN workers :
        LET old == workers[w]
            new == workers'[w]
            event == old.pc = "check" /\ new.pc = "frame" /\ new.msg.type = "Press"
        IN  Running(old) =>
              \A r \in 1..Len(old.matrix) : \A c \in 1..Len(old.matrix[r]) :
                 LET k0 == old.matrix[r][c]
                     k1 == new.matrix[r][c]
                     hit == event /\ new.msg.row = r - 1 /\ new.msg.col = c - 1
                 IN  /\ k1.last_down # k0.last_down =>
                          hit /\ new.msg.pressed /\ ~k0.is_pressed
                     /\ hit => k1.is_pressed = new.msg.pressed
                     /\ ~hit => k1 = k0]_vars

\* a key held down over two reports at different times: the second one moved
\* last_pressed and not last_down
C6_Witness ==
    \E w \in DOMAIN workers :
        /\ Running(workers[w])
        /\ workers[w].matrix[1][2].is_pressed
        /\ workers[w].matrix[1][2].last_down # NoInstant
        /\ workers[w].matrix[1][2].last_pressed > workers[w].matrix[1][2].last_down

\* the LED indices whose colour differs from the copy taken before the effects
ChangedSet(wk) ==
    {i \in 0..(Len(wk.led_state) - 1) :
        wk.led_state[i + 1].color # wk.pre_state[i + 1].color}

\* C7: on a frame tick where N LED indices changed colour, the loop attempts
\* ceil(N / 7) RgbSet sends of 1 to 7 entries each; the entries together are
\* the changed indices, each in exactly one message, and no other index.
C7_FrameBatches ==
    \A w \in DOMAIN workers :
        LET wk == workers[w]
            batches == wk.frame_sent
            N == Cardinality(ChangedSet(wk))
        IN  Running(wk) =>
              /\ \A i \in 1..Len(batches) :
                    /\ Cardinality(batches[i].idx) \in 1..7
                    /\ batches[i].idx \subseteq ChangedSet(wk)
              /\ \A i, j \in 1..Len(batches) :
                    i # j => batches[i].idx \cap batches[j].idx = {}
              /\ wk.pc # "send" =>
                    /\ Len(batches) = (N + 6) \div 7
                    /\ UNION {batches[i].idx : i \in 1..Len(batches)} = ChangedSet(wk)

\* a frame of more than seven changed LEDs was sent in two messages
C7_Witness ==
    \E w \in DOMAIN workers :
        /\ workers[w].pc = "tx"
        /\ Cardinality(ChangedSet(workers[w])) > 7
        /\ Len(workers[w].frame_sent) = 2

\* C1: a worker that finds the cancellation flag set leaves the loop; from
\* there its only step is the one terminal RgbSetFull(black) send, after which
\* it has ended: no further iteration, no RgbSet, no snapshot.
C1_CancelTerminal ==
    [][\A w \in DOMAIN workers :
        LET old == workers[w]
            new == workers'[w]
        IN  /\ (old.pc = "check" /\ handle.cancel /\ new # old) =>
                 new = [old EXCEPT !.pc = "final"]
            /\ (old.pc = "final" /\ new # old) =>
                 /\ new.pc \in {"done", "panicked"}
                 /\ new = [old EXCEPT !.pc = new.pc, !.writes = old.writes + 1,
                                      !.finals = 1]
            /\ old.finals >= 1 => new = old
            /\ (old.pc \in {"final", "done"} \/ old.finals >= 1) =>
                 (Len(channel') > Len(channel) =>
                     channel'[Len(channel')].from # w)]_vars

\* a worker that sent RgbSet messages and published snapshots has ended after
\* its terminal send
C1_Witness ==
    \E w \in DOMAIN workers :
        /\ workers[w].pc = "done"
        /\ workers[w].finals = 1
        /\ workers[w].writes >= 2
        /\ \E i \in 1..Len(channel) : channel[i].from = w

\* C2: on a handle started once, whenever stop() or drop has returned the
\* worker has ended and has made its terminal send.
C2_TeardownJoins ==
    (handle.started = 1 /\ (owner.stops >= 1 \/ owner.pc = "dropped")) =>
        /\ workers[1].pc = "done"
        /\ workers[1].finals = 1

\* stop() has returned on a handle started once, whose worker had sent frames
C2_Witness ==
    /\ handle.started = 1
    /\ owner.stops = 1
    /\ owner.pc = "idle"
    /\ workers[1].pc = "done"
    /\ workers[1].writes >= 2

\* C5: publishing never blocks the worker nor ends it: a worker at the publish
\* step can always take it, the step leads to the sleep whether the snapshot
\* was accepted or refused and changes nothing else of the loop, and the sleep
\* leads to the next check of the flag.
C5_PublishNeverBlocks ==
    /\ [](\A w \in DOMAIN workers :
            workers[w].pc = "tx" => ENABLED WorkerPublish(w))
    /\ [][\A w \in DOMAIN workers :
            LET old == workers[w]
                new == workers'[w]
            IN  /\ (old.pc = "tx" /\ new # old) =>
                     /\ new = [old EXCEPT !.pc = "sleeping", !.last_update = now]
                     /\ \/ channel' = channel /\ sent'.refused = sent.refused + 1
                        \/ channel' = Append(channel,
                                             Snapshot(old, w, sent.accepted + 1))
                /\ (old.pc = "sleeping" /\ new # old) =>
                     new = [old EXCEPT !.pc = "check"]]_vars

\* a worker whose snapshot was refused, with snapshots buffered that nobody
\* read, has reached its next check of the flag
C5_Witness ==
    /\ sent.refused >= 1
    /\ Len(channel) >= 2
    /\ ~handle.alive
    /\ \E w \in DOMAIN workers : workers[w].pc = "check" /\ workers[w].last_update >= 1

(***************************************************************************)
(* Claims about the snapshot channel                                       *)
(***************************************************************************)
Active == {c \in DOMAIN consumers : consumers[c].active}

\* C3: with one consumer, the snapshots published since its previous poll
\* are those in the channel and those the poll under way has taken; the poll
\* ends when it finds the channel empty, and if it took N >= 1 snapshots the
\* consumer then holds the N-th, the most recently published one, and none of
\* the older ones ever becomes its state; a poll that took nothing leaves
\* the consumer's state as it was.
C3_PollLatest ==
    [][\A c \in DOMAIN consumers :
        (Active = {c}) =>
          LET me    == consumers[c]
              curr  == me.curr_state
              curr2 == consumers'[c].curr_state
              ends  == consumers'[c] # me /\ channel = <<>>
          IN  /\ Len(channel) + me.taken = sent.accepted - curr.seq
              /\ (ends /\ me.taken >= 1) =>
                    /\ curr2 = me.last[1]
                    /\ curr2.seq = sent.accepted
                    /\ channel' = <<>>
                    /\ consumers'[c].drained = sent.accepted - curr.seq
              /\ (ends /\ me.taken = 0) => curr2 = curr
              /\ curr2 # curr => ends /\ curr2.seq = sent.accepted]_vars

\* the only consumer took three snapshots in one poll and holds the newest
C3_Witness ==
    /\ Active = {1}
    /\ consumers[1].drained = 3
    /\ consumers[1].pc = "idle"
    /\ consumers[1].curr_state.seq = sent.accepted
    /\ channel = <<>>

\* C4 as claimed: every consumer that polls after a snapshot was published
\* holds the most recently published snapshot when its poll returns.
C4_EveryConsumerLatest ==
    [][\A c \in DOMAIN consumers :
        (consumers'[c].polls > consumers[c].polls /\ sent.accepted >= 1) =>
            consumers'[c].curr_state.seq = sent.accepted]_vars

(***************************************************************************)
(* Claims about failures                                                   *)
(***************************************************************************)
\* C11: send() on a Press or a Layer message, or on an RgbSet of more than 7
\* entries (an encoding of more than 33 bytes), panics and hands nothing to
\* the transport; no report longer than 33 bytes is ever written.
C11_SendFatal ==
    (ret.done /\ call.fn = "send") =>
        LET msg == call.msg
            n == IF msg.type = "RgbSet" THEN Cardinality(DOMAIN msg.colors) ELSE 0
        IN  /\ (msg.type \in {"Press", "Layer"} \/ (msg.type = "RgbSet" /\ n > 7)) =>
                 /\ ret.value.outcome = "panic"
                 /\ ret.value.buf = <<>>
            /\ ret.value.outcome = "write" => Len(ret.value.buf) <= 33
            /\ ret.value.outcome \in {"write", "panic"}

\* an RgbSet of eight entries, 37 bytes encoded, ended in a panic
C11_Witness ==
    /\ ret.done /\ call.fn = "send"
    /\ call.msg.type = "RgbSet"
    /\ Cardinality(DOMAIN call.msg.colors) = 8
    /\ ret.value.outcome = "panic"

\* C12: a failed write of an RgbSet during a frame is not fatal and is not
\* retried: the batch leaves the colours still to send whether its write
\* succeeded or failed, the remaining batches follow, the frame timer is reset
\* after the last one, the snapshot is published and the loop sleeps and
\* checks the flag again; a frame sends only the indices that frame changed.
C12_SendFailureIgnored ==
    [][\A w \in DOMAIN workers :
        LET old == workers[w]
            new == workers'[w]
        IN  /\ (old.pc = "send" /\ new # old) =>
                 LET batch == new.frame_sent[Len(new.frame_sent)]
                 IN  /\ Len(new.frame_sent) = Len(old.frame_sent) + 1
                     /\ batch.idx # {}
                     /\ batch.idx \subseteq DOMAIN old.colors
                     /\ DOMAIN new.colors = DOMAIN old.colors \ batch.idx
                     /\ new.pc = (IF DOMAIN new.colors = {} THEN "tx" ELSE "send")
                     /\ new.pc = "tx" => new.last_frame = now
                     /\ new.led_state = old.led_state
                     /\ new.writes = old.writes + 1
            /\ (old.pc = "frame" /\ new.pc = "send") =>
                 DOMAIN new.colors = ChangedSet(new)
            /\ (old.pc = "tx" /\ new # old) =>
                 /\ new.pc = "sleeping"
                 /\ sent'.accepted + sent'.refused = sent.accepted + sent.refused + 1
            /\ (old.pc = "sleeping" /\ new # old) => new.pc = "check"]_vars

\* the first of a frame's two batches failed; the second was attempted, the
\* snapshot was published and the worker is at its next check of the flag
C12_Witness ==
    \E w \in DOMAIN workers :
        /\ workers[w].pc = "check"
        /\ Len(workers[w].frame_sent) = 2
        /\ ~workers[w].frame_sent[1].ok
        /\ DOMAIN workers[w].colors = {}
        /\ workers[w].last_frame >= 1
        /\ \E i \in 1..Len(channel) : channel[i].from = w

\* C13: a failed terminal RgbSetFull(black) send panics the worker, and the
\* stop() or drop that joins this worker panics as well: it never returns
\* normally.
C13_TerminalFailureFatal ==
    /\ [](\A w \in DOMAIN workers :
            (workers[w].finals >= 1 /\ workers[w].pc # "done") =>
                workers[w].pc = "panicked")
    /\ [](owner.target # 0 /\ workers[owner.target].pc = "panicked" =>
            owner.pc \in {"stop", "drop", "panicked"})
    /\ [][(owner.pc \in {"stop", "drop"}
            /\ workers[owner.target].pc = "panicked"
            /\ owner' # owner) =>
              /\ owner'.pc = "panicked"
              /\ owner'.stops = owner.stops]_vars

\* the owner's stop() or drop ended in a panic after joining a worker whose
\* terminal send had failed
C13_Witness ==
    /\ owner.pc = "panicked"
    /\ owner.target # 0
    /\ workers[owner.target].finals = 1
    /\ workers[owner.target].pc = "panicked"
    /\ workers[owner.target].writes >= 2

\* the KeyStates of two matrices differ at (r, c) only
OnlyAt(m0, m1, r, c) ==
    \A i \in 1..Len(m0) : \A j \in 1..Len(m0[i]) :
        (i # r \/ j # c) => m1[i][j] = m0[i][j]

\* C14: an iteration whose read fails, returns no data, or returns a report
\* that decodes to neither Press nor Layer leaves the key matrix and the
\* layer state as they were and goes on to the frame step; a Press changes
\* only the KeyState at its (row, col), a Layer only the layer state.
C14_ReadDispatch ==
    [][\A w \in DOMAIN workers :
        LET old == workers[w]
            new == workers'[w]
            decoded == read_buffer(new.recv_buffer, RAW_EPSIZE)
        IN  (old.pc = "check" /\ new # old /\ new.pc # "final") =>
              /\ new.msg.type \in {"None", "Press", "Layer"}
              /\ new.msg.type # "None" => new.msg = decoded
              /\ new.msg.type = "None" =>
                    /\ new.matrix = old.matrix
                    /\ new.layer_state = old.layer_state
                    /\ new.pc = "frame"
              /\ new.msg.type = "Press" =>
                    /\ new.layer_state = old.layer_state
                    /\ Len(new.matrix) = Len(old.matrix)
                    /\ OnlyAt(old.matrix, new.matrix, new.msg.row + 1, new.msg.col + 1)
              /\ new.msg.type = "Layer" =>
                    /\ new.matrix = old.matrix
                    /\ new.layer_state = new.msg.layer_state
                    /\ new.pc = "frame"
              /\ new.led_state = old.led_state]_vars

\* with a key held and the layer changed, a report of an unknown opcode was
\* read and ignored
C14_Witness ==
    \E w \in DOMAIN workers :
        /\ workers[w].pc = "frame"
        /\ workers[w].recv_buffer = Received(NoBuffer, ReportUnknown)
        /\ workers[w].msg.type = "None"
        /\ workers[w].layer_state = 1
        /\ workers[w].matrix[1][2].is_pressed

(***************************************************************************)
(* Claims about the configuration and the effects                          *)
(***************************************************************************)
\* C15 as claimed: when the effects run over LED slots of which some has no
\* bound key, the update completes normally, that slot keeps the colour it
\* had, and the slots with a key get the colour of the rainbow.
C15_UnboundSlotUntouched ==
    [][\A w \in DOMAIN workers :
        LET old == workers[w]
            new == workers'[w]
        IN  (old.pc = "frame" /\ new # old
             /\ now - old.last_frame >= old.wait_frame
             /\ \E i \in 1..Len(old.led_state) : old.led_state[i].key = 0) =>
              /\ new.pc \in {"send", "tx"}
              /\ \A i \in 1..Len(old.led_state) :
                    new.led_state[i].color =
                        IF old.led_state[i].key = 0
                        THEN old.led_state[i].color
                        ELSE RainbowColor(old.effects[1],
                                          KBConfig_layout(kb_config)[old.led_state[i].key])]_vars

\* C16 as claimed: in every configuration accepted at construction each key
\* with a non-negative LED index has an index below led_count, so the binding
\* at the start of the loop finds its slot; every snapshot published has the
\* matrix dimensions and the number of LEDs of the configuration.
C16_LedIndexInRange ==
    /\ [](\A n \in 1..Len(KBConfig_layout(kb_config)) :
            LedIndex(kb_config.matrix, KBConfig_layout(kb_config)[n]) >= 0 =>
                LedIndex(kb_config.matrix, KBConfig_layout(kb_config)[n]) < kb_config.led_count)
    /\ [][\A w \in DOMAIN workers :
            (workers[w].pc = "spawned" /\ workers'[w] # workers[w]) =>
                workers'[w].pc = "check"]_vars
    /\ [](\A i \in 1..Len(channel) :
            /\ Len(channel[i].matrix) = kb_config.rows
            /\ \A r \in 1..Len(channel[i].matrix) :
                  Len(channel[i].matrix[r]) = kb_config.columns
            /\ Len(channel[i].led_state) = kb_config.led_count)

\* C17: the LED colours and the effect state of a run are those of the
\* pipeline alone fed the same sequence of frame deltas, after every frame
\* and at every step between two frames, whatever reports arrived, in
\* whatever order the batches were sent and whatever the sends returned; so
\* two runs from the same initial state fed the same deltas hold the same
\* colours.
C17_PipelineDeterministic ==
    (call.fn = "pipeline") =>
        \A w \in DOMAIN workers :
            workers[w].pc \notin {"none", "spawned", "panicked"} =>
                LET alone == PipelineRun(kb_config, call.fed[w])
                IN  /\ LedColors(workers[w].led_state) = LedColors(alone.led_state)
                    /\ workers[w].effects = alone.effects

\* a run was fed two deltas; a key was pressed in between, the batches of
\* the second frame went out with LED 7 in the first, and that batch failed
C17_Witness ==
    /\ call.fn = "pipeline"
    /\ Len(call.fed[1]) = 2
    /\ workers[1].pc = "tx"
    /\ workers[1].matrix[1][2].is_pressed
    /\ Len(workers[1].frame_sent) = 2
    /\ 7 \in workers[1].frame_sent[1].idx
    /\ ~workers[1].frame_sent[1].ok /\ workers[1].frame_sent[2].ok
    /\ workers[1].led_state[1].color # DefaultColor

(***************************************************************************)
(* Claims about the loop's timing                                          *)
(***************************************************************************)
\* C18 as claimed: the delta_update an iteration computes, and its snapshot
\* carries, is the time elapsed since the start of the previous iteration,
\* that iteration's read, frame and publish work and its sleep included.
C18_DeltaSinceIterationStart ==
    [][(call.fn = "iterations") =>
        \A w \in DOMAIN workers :
            LET old == workers[w]
                new == workers'[w]
            IN  /\ (old.pc = "check" /\ new # old /\ new.pc # "final"
                    /\ call.start[w] # NoInstant) =>
                      new.delta_update = now - call.start[w]
                /\ (old.pc = "tx" /\ Len(channel') > Len(channel)) =>
                      channel'[Len(channel')].delta_update = old.delta_update]_vars

\* C19: the cancellation flag is polled once per iteration, before any work.
\* A worker that finds it set at the head of an iteration does no work and
\* goes to the terminal send; between two polls it publishes one snapshot and
\* runs at most one frame.  So after the flag is set the worker publishes at
\* most one more snapshot and sends at most one more frame of RgbSet before
\* the terminal send, and under fair scheduling it terminates.
C19_CancelOncePerIteration ==
    /\ [][\A w \in DOMAIN workers :
            LET old == workers[w]
                new == workers'[w]
            IN  /\ (old.pc = "check" /\ new # old) =>
                      IF handle.cancel
                      THEN new = [old EXCEPT !.pc = "final"]
                      ELSE new.pc \in {"frame", "panicked"}
                /\ (old.pc # "check" /\ new # old) => new.pc # "final"
                /\ (old.pc = "frame" /\ new # old) => new.pc \in {"send", "tx", "panicked"}
                /\ (old.pc = "send" /\ new # old) => new.pc \in {"send", "tx"}
                /\ (old.pc = "tx" /\ new # old) => new.pc = "sleeping"
                /\ (old.pc = "sleeping" /\ new # old) => new.pc = "check"]_vars
    /\ [](call.fn = "cancel" /\ call.set =>
            /\ sent.accepted + sent.refused <= call.published + 1
            /\ \A w \in DOMAIN workers :
                  /\ workers[w].writes - workers[w].finals <= call.writes + 1
                  /\ workers[w].finals <= 1)
    /\ \A w \in {1} :
          (handle.cancel /\ workers[w].pc # "none")
              ~> (workers[w].pc \in {"done", "panicked"})

\* the flag was set while the worker was in an iteration: it published one
\* more snapshot and sent one more RgbSet, then made the terminal send and ended
C19_Witness ==
    /\ call.fn = "cancel" /\ call.set
    /\ sent.accepted + sent.refused = call.published + 1
    /\ workers[1].writes - workers[1].finals = call.writes + 1
    /\ workers[1].finals = 1
    /\ workers[1].pc = "done"

\* C20: the effects run only in an iteration where the time since the last
\* frame tick is at least the frame interval.  There every registered effect
\* is invoked once, in order, before the diff and before any RgbSet is sent;
\* in every other iteration the LED state is unchanged and nothing is sent.
C20_FrameGate ==
    [][\A w \in DOMAIN workers :
        LET old == workers[w]
            new == workers'[w]
            elapsed == now - old.last_frame
        IN  /\ (old.pc = "frame" /\ new # old) =>
                 IF elapsed >= old.wait_frame
                 THEN /\ Len(new.effects) = Len(old.effects)
                      /\ \A n \in 1..Len(old.effects) :
                            new.effects[n].base_hue =
                               (old.effects[n].base_hue
                                  + SPEED * elapsed * SecondsPerTick) % 360
                      /\ \A i \in 1..Len(old.led_state) :
                            new.led_state[i].color =
                               RainbowColor(old.effects[Len(old.effects)],
                                            KBConfig_layout(kb_config)[old.led_state[i].key])
                      /\ new.pre_state = old.led_state
                      /\ DOMAIN new.colors = ChangedSet(new)
                      /\ new.frame_sent = <<>>
                      /\ new.writes = old.writes
                      /\ new.delta_frame = elapsed
                      /\ new.pc = (IF ChangedSet(new) = {} THEN "tx" ELSE "send")
                 ELSE new = [old EXCEPT !.pc = "tx"]
            /\ new.writes # old.writes => old.pc \in {"send", "final"}
            /\ new.pc = "send" => old.pc \in {"frame", "send"}
            /\ (Running(old) /\ new.led_state # old.led_state) => old.pc = "frame"]_vars

\* a worker that had sent a frame went through an iteration in which no frame
\* was due, and is about to publish
C20_Witness ==
    \E w \in DOMAIN workers :
        /\ workers[w].pc = "tx"
        /\ workers[w].writes >= 1
        /\ workers[w].last_frame < workers[w].last_update + workers[w].delta_update


(***************************************************************************)
(* Claims about reports outside the matrix and about the handle's states   *)
(***************************************************************************)
\* One worker and a keyboard of one row of two keys whose reports name
\* positions inside the matrix and outside it: a row past the last row, a
\* column past the last column.
InitBounds ==
    /\ InitProgram(1, 0)
    /\ call = NoCall
    /\ ret = NoRet
    /\ kb_config = RowConfig(<<0, 1>>)
    /\ device_in = {ReportPress(0, 1), ReportRelease(0, 1), ReportPress(1, 0),
                    ReportPress(0, 2), ReportRelease(3, 3)}

SpecBounds == InitBounds /\ [][NextKeys]_vars

\* the position (row, col), 0-based, is one of the matrix
InMatrix(matrix, row, col) ==
    /\ row < Len(matrix)
    /\ col < Len(matrix[row + 1])

\* C21 as claimed: an iteration that decodes a Press, whatever its row and
\* col, leaves the worker running and on its way to the frame step: the
\* Press is applied to the position it names when the matrix has it, and is
\* dropped (the matrix unchanged) when it has not.
C21_PressKeepsRunning ==
    [][\A w \in DOMAIN workers :
        LET old == workers[w]
            new == workers'[w]
        IN  (old.pc = "check" /\ new # old /\ new.pc # "final"
             /\ new.msg.type = "Press") =>
              /\ new.pc = "frame"
              /\ Len(new.matrix) = Len(old.matrix)
              /\ IF InMatrix(old.matrix, new.msg.row, new.msg.col)
                 THEN new.matrix[new.msg.row + 1][new.msg.col + 1].is_pressed
                         = new.msg.pressed
                 ELSE new.matrix = old.matrix]_vars

\* the handle holds no JoinHandle: start() was never called, or stop() has
\* taken the one start() stored (line 73) and has returned
NoThread == handle.thread = 0

\* C22 as claimed: the drop of a handle on which start() was never called,
\* and the drop of a handle after an explicit stop() has returned, both
\* return normally.
C22_DropReturns ==
    [][(Drop /\ NoThread /\ (handle.started = 0 \/ owner.stops >= 1)) =>
          owner'.pc = "dropped"]_vars

\* the worker is inside the loop of run (lines 121-197)
InLoop(wk) == wk.pc \in {"check", "read", "frame", "send", "tx", "sleeping"}

\* C23 as claimed: whatever start() and stop() calls were made on the
\* handle, at most one of the workers it started is in its loop at a time,
\* and while stop() has returned and start() was not called again no worker
\* it started is in its loop.
C23_OneWorkerPerHandle ==
    /\ Cardinality({w \in DOMAIN workers : InLoop(workers[w])}) <= 1
    /\ (owner.pc = "idle" /\ owner.stops >= 1 /\ NoThread) =>
          \A w \in DOMAIN workers : ~InLoop(workers[w])
====
